---- MODULE Spec2Model ----
(***************************************************************************)
(* Model of the ETL pipeline of flows/etl_lab2_prefect.py (the Prefect     *)
(* flow etl_flow) and flows/etl_simple.py (main): extract, transform,      *)
(* load and log_run over the three source tables alumnos (roster),         *)
(* calificaciones (grades) and matriculas (enrollment), the fact table     *)
(* hechos and the audit table etl_monitor.                                 *)
(*                                                                         *)
(* A cell of a table is Null (pandas NaN / None) or V(x).  A table is a    *)
(* record [cols, rows]: the column names in order and the rows in order.   *)
(* Scores (nota) are integers in hundredths: 780 is 7.80.  A name is a     *)
(* sequence of characters, an accented vowel written "a_acute" etc.        *)
(***************************************************************************)
EXTENDS Integers, Sequences, FiniteSets, TLC

\* ------------------------------------------------------------------ bounds

\* Rows read over the three source files together.
MaxRows == 4
\* Rows of the grade table that normalizar_nota is applied to on its own.
MaxNotas == 2
\* Rows of the roster that the cleaning steps 1 and 2 are applied to on their own.
MaxAlumnos == 3
\* Runs executed one after the other against the same etl.db.
MaxRuns == 2

\* ------------------------------------------------------------------ values

Null == <<>>
V(x) == <<x>>
isna(c) == c = Null
notna(c) == c # Null
Val(c) == c[1]

\* mensaje[:500]
MaxMensaje == 500

key == "id_alumno"

AlCols == <<"id_alumno", "nombre", "apellido", "grado", "correo", "fecha_nacimiento">>
CaCols == <<"id_alumno", "asignatura", "nota", "periodo">>
MaCols == <<"id_alumno", "anio", "estado", "jornada">>

columnas_ordenadas ==
  <<"id_alumno", "nombre", "apellido", "grado", "correo", "fecha_nacimiento",
    "asignatura", "nota", "periodo", "anio", "estado", "jornada">>

Range(s) == {s[i] : i \in 1..Len(s)}
HasCol(t, c) == c \in Range(t.cols)

\* ----------------------------------------------------------- source files

IdVals == {Null, V(1), V(2)}

Jose == <<"J", "o", "s", "e_acute">>
Perez == <<"P", "e_acute", "r", "e", "z">>
CorreoDado == <<"ana@colegio.edu">>

\* Rows of alumnos.csv.
AlRows ==
  [id_alumno : {Null, V(1)}, nombre : {V(Jose)}, apellido : {V(Perez)}, grado : {V("5")},
   correo : {Null, V(CorreoDado)}, fecha_nacimiento : {V("2010-01-01")}]

\* Records of calificaciones.json.
CaRows ==
  [id_alumno : IdVals, asignatura : {V("Mat")}, nota : {Null, V(300), V(780)},
   periodo : {V("P1")}]

\* <matricula> elements of matriculas.xml.
MaRows ==
  [id_alumno : {Null, V(1)}, anio : {Null, V("2024")}, estado : {V("activo")},
   jornada : {V("manana")}]

\* pd.read_csv: the header gives the columns, also with no rows.
ReadCsv(rows) == [cols |-> AlCols, rows |-> rows]
\* pd.read_json(orient="records") and pd.DataFrame(list of dicts): the columns
\* are the keys of the records, so no record means no column.
ReadRecords(cols, rows) == [cols |-> IF rows = <<>> THEN <<>> ELSE cols, rows |-> rows]

\* ------------------------------------------------------ cleaning functions

\* keep='last': of the rows with one key, the last one stays.
RECURSIVE drop_duplicates_last(_)
drop_duplicates_last(rows) ==
  IF rows = <<>> THEN <<>>
  ELSE IF \E i \in 2..Len(rows) : rows[i].id_alumno = rows[1].id_alumno
       THEN drop_duplicates_last(Tail(rows))
       ELSE <<Head(rows)>> \o drop_duplicates_last(Tail(rows))

\* df.drop_duplicates(subset=['id_alumno'], keep='first'): NaN keys are equal.
RECURSIVE drop_duplicates(_)
drop_duplicates(rows) ==
  IF rows = <<>> THEN <<>>
  ELSE LET n == Len(rows)
           init == drop_duplicates(SubSeq(rows, 1, n - 1))
       IN IF \E i \in 1..(n - 1) : rows[i].id_alumno = rows[n].id_alumno
          THEN init
          ELSE Append(init, rows[n])

lower(ch) ==
  CASE ch = "J" -> "j"
    [] ch = "P" -> "p"
    [] ch = "A" -> "a"
    [] ch = "M" -> "m"
    [] ch = "D" -> "d"
    [] ch = "I_ACUTE" -> "i_acute"
    [] OTHER -> ch

\* str.lower() of a whole string
lower_str(s) == [i \in 1..Len(s) |-> lower(s[i])]

\* str.strip(): leading and trailing spaces.
RECURSIVE strip(_)
strip(s) ==
  IF s = <<>> THEN s
  ELSE IF Head(s) = " " THEN strip(Tail(s))
  ELSE IF s[Len(s)] = " " THEN strip(SubSeq(s, 1, Len(s) - 1))
  ELSE s

sin_acento(ch) ==
  CASE ch = "a_acute" -> "a"
    [] ch = "e_acute" -> "e"
    [] ch = "i_acute" -> "i"
    [] ch = "o_acute" -> "o"
    [] ch = "u_acute" -> "u"
    [] OTHER -> ch

\* .replace(' ', '').replace('á', 'a')...replace('ú', 'u')
limpio(s) ==
  LET sin_espacios == SelectSeq(s, LAMBDA ch : ch # " ")
  IN [i \in 1..Len(sin_espacios) |-> sin_acento(sin_espacios[i])]

\* str(x) of a cell: the text itself, 'nan' for a missing value.
str(cell) == IF isna(cell) THEN <<"n", "a", "n">> ELSE Val(cell)

\* The address generated only for a missing value, the empty one kept.
generar_correo_solo_nulos(row) ==
  IF isna(row.correo)
  THEN V(limpio(strip(lower_str(str(row.nombre)))) \o <<".">>
         \o limpio(strip(lower_str(str(row.apellido)))) \o <<"@colegio.edu">>)
  ELSE row.correo

generar_correo(row) ==
  IF isna(row.correo) \/ row.correo = V(<<>>)
  THEN LET nombre == strip(lower_str(str(row.nombre)))
           apellido == strip(lower_str(str(row.apellido)))
       IN V(limpio(nombre) \o <<".">> \o limpio(apellido) \o <<"@colegio.edu">>)
  ELSE row.correo

\* round(float(nota), 1), in hundredths; no input has a 5 as its last digit.
round1(h) ==
  LET r == h % 10
  IN IF r < 5 THEN h - r ELSE h - r + 10

Min(a, b) == IF a < b THEN a ELSE b
Max(a, b) == IF a > b THEN a ELSE b

\* The range judged on the rounded value.
fuera_rango_redondeada(cell) ==
  notna(cell) /\ (round1(Val(cell)) < 0 \/ round1(Val(cell)) > 500)

\* nota < 0 or nota > 5, for a nota that is not NaN
fuera_rango(cell) == notna(cell) /\ (Val(cell) < 0 \/ Val(cell) > 500)

normalizar_nota(cell) ==
  IF isna(cell) THEN cell ELSE V(Max(0, Min(500, round1(Val(cell)))))

\* df[col].isna().sum()
isna_sum(rows, col) == Cardinality({i \in 1..Len(rows) : isna(rows[i][col])})

\* -------------------------------------------------------------- exceptions

\* An exception is its type and str(e): the text, and the text's length.
KeyError(col) == [type |-> "KeyError", msg |-> col, len |-> Len(col) + 2]
\* error_msg of etl_simple.transform
ErrorValidacion ==
  [type |-> "ValueError", msg |-> "Validacion de integridad de datos fallo", len |-> 73]
\* What the reads of extract raise: a missing file, a malformed file (the
\* parser's message quotes the offending input, so it may be long).
ExtractErrors ==
  {[type |-> "FileNotFoundError", msg |-> "No such file or directory", len |-> 58],
   [type |-> "ValueError", msg |-> "Unexpected character found when decoding", len |-> 600]}
\* What sqlite3.connect raises in load when the database cannot be opened.
SqliteError ==
  [type |-> "OperationalError", msg |-> "unable to open database file", len |-> 28]
\* What sqlite3 raises in log_run when the audit row cannot be written.
AuditError ==
  [type |-> "OperationalError", msg |-> "database is locked", len |-> 18]

NoExc == [type |-> "", msg |-> "", len |-> 0]

\* ------------------------------------------------------------------ tables

\* df[df[col].notna()]
FilterNotna(t, col) == [t EXCEPT !.rows = SelectSeq(t.rows, LAMBDA r : notna(r[col]))]

NullsFor(cols) == [c \in (Range(cols) \ {key}) |-> Null]

\* The rows a left row yields in a left merge on key: one per right row with
\* the same key (NaN keys match each other), or one with nulls if there is none.
RECURSIVE JoinOne(_, _)
JoinOne(l, rrows) ==
  IF rrows = <<>>
  THEN <<>>
  ELSE (IF Head(rrows)[key] = l[key] THEN <<l @@ Head(rrows)>> ELSE <<>>)
       \o JoinOne(l, Tail(rrows))

RECURSIVE MergeRows(_, _, _)
MergeRows(lrows, rrows, rcols) ==
  IF lrows = <<>>
  THEN <<>>
  ELSE LET l == Head(lrows)
           m == JoinOne(l, rrows)
       IN (IF m = <<>> THEN <<l @@ NullsFor(rcols)>> ELSE m)
          \o MergeRows(Tail(lrows), rrows, rcols)

\* left.merge(right, on=key, how='left'); the caller checks that both have key.
merge(left, right) ==
  [cols |-> left.cols \o SelectSeq(right.cols, LAMBDA c : c # key),
   rows |-> MergeRows(left.rows, right.rows, right.cols)]

\* df[col].nunique(): distinct non-null values.
nunique(rows, col) == Cardinality({r[col] : r \in {x \in Range(rows) : notna(x[col])}})

\* df['nota'].mean(): the mean of the non-null values as a fraction of
\* hundredths, NaN when there is none.
NaN == [nan |-> TRUE, num |-> 0, den |-> 0]
Num(n, d) == [nan |-> FALSE, num |-> n, den |-> d]
Zero == Num(0, 1)

RECURSIVE SumNota(_)
SumNota(rows) ==
  IF rows = <<>> THEN 0
  ELSE (IF notna(Head(rows).nota) THEN Val(Head(rows).nota) ELSE 0) + SumNota(Tail(rows))

CountNota(rows) == Len(rows) - isna_sum(rows, "nota")

mean(rows) ==
  IF CountNota(rows) = 0 THEN NaN ELSE Num(SumNota(rows), CountNota(rows))

\* df_final[columnas_finales]
Project(t, cols) ==
  [cols |-> cols,
   rows |-> [i \in 1..Len(t.rows) |-> [c \in Range(cols) |-> t.rows[i][c]]]]

\* ---------------------------------------------------------------- extract

\* The day of the month of datetime.utcnow() on which a run executes, and the
\* days d for which random.seed(d); random.random() < 0.3.
Days == 1..31
RunDays == {1, 2}
DiasConError == {1, 3, 4, 8, 13, 14, 18, 21, 28, 31}

\* The row counts taken after the roster lost its duplicates.
extract_metrics_sin_dup(al, ca, ma) ==
  [alumnos_rows |-> Len(drop_duplicates(al.rows)),
   calificaciones_rows |-> Len(ca.rows),
   matriculas_rows |-> Len(ma.rows),
   total_registros |-> Len(drop_duplicates(al.rows)) + Len(ca.rows) + Len(ma.rows)]

extract_metrics(al, ca, ma) ==
  [alumnos_rows |-> Len(al.rows),
   calificaciones_rows |-> Len(ca.rows),
   matriculas_rows |-> Len(ma.rows),
   total_registros |-> Len(al.rows) + Len(ca.rows) + Len(ma.rows)]

\* What extract returns for the files f.
extract_out(f) ==
  LET al == ReadCsv(f.al)
      ca == ReadRecords(CaCols, f.ca)
      ma == ReadRecords(MaCols, f.ma)
  IN [al |-> al, ca |-> ca, ma |-> ma, metrics |-> extract_metrics(al, ca, ma)]

\* -------------------------------------------------------------- transform

Raise(e) == [exc |-> e, df_final |-> [cols |-> <<>>, rows |-> <<>>], metrics |-> <<>>]
Return(df, m) == [exc |-> NoExc, df_final |-> df, metrics |-> m]
Raised(r) == r.exc # NoExc

\* Steps 1 and 2 of the cleaning: the roster without duplicates, its missing
\* addresses generated, and the count of generated addresses.
limpiar_alumnos(df_al) ==
  LET sin_dup == drop_duplicates(df_al.rows)
      correos_faltantes_antes == isna_sum(sin_dup, "correo")
      con_correo == [i \in 1..Len(sin_dup) |-> [sin_dup[i] EXCEPT !.correo = generar_correo(sin_dup[i])]]
      correos_faltantes_despues == isna_sum(con_correo, "correo")
  IN [df_al |-> [df_al EXCEPT !.rows = con_correo],
      duplicados_eliminados |-> Len(df_al.rows) - Len(sin_dup),
      correos_generados |-> correos_faltantes_antes - correos_faltantes_despues]

\* Step 3: df_ca['nota'].apply(normalizar_nota), and the out-of-range count.
limpiar_calificaciones(df_ca) ==
  [df_ca |-> [df_ca EXCEPT
                !.rows = [i \in 1..Len(df_ca.rows) |->
                            [df_ca.rows[i] EXCEPT !.nota = normalizar_nota(df_ca.rows[i].nota)]]],
   calificaciones_fuera_rango |->
     Cardinality({i \in 1..Len(df_ca.rows) : fuera_rango(df_ca.rows[i].nota)})]

filas_con_matricula(df_final) == SelectSeq(df_final.rows, LAMBDA r : notna(r.anio))

columnas_finales(df_final) ==
  SelectSeq(columnas_ordenadas, LAMBDA c : c \in Range(df_final.cols))

\* discarded of etl_lab2_prefect.transform: per table, the rows before the key
\* filter (the roster already without duplicates) minus the rows after it.
discarded_prefect(df_al, valid_al, df_ca, valid_ca, df_ma, valid_ma) ==
  (Len(df_al.rows) - Len(valid_al.rows)) + (Len(df_ca.rows) - Len(valid_ca.rows))
  + (Len(df_ma.rows) - Len(valid_ma.rows))

\* registros_descartados of etl_simple.transform
discarded_simple == 0

promedio(df_final) == IF HasCol(df_final, "nota") THEN mean(df_final.rows) ELSE Zero

\* The statistics of both variants, from the joined table before and after the
\* column selection.
estadisticas(joined, df_final) ==
  [alumnos_con_matricula |-> nunique(filas_con_matricula(joined), key),
   promedio_notas_general |-> promedio(df_final),
   total_alumnos_unicos |-> nunique(df_final.rows, key),
   total_materias_diferentes |->
     IF HasCol(df_final, "asignatura") THEN nunique(df_final.rows, "asignatura") ELSE 0]

\* transform of etl_lab2_prefect.py
transform_prefect(dfs) ==
  IF ~HasCol(dfs.al, key) THEN Raise(KeyError(key))
  ELSE IF ~HasCol(dfs.al, "correo") THEN Raise(KeyError("correo"))
  ELSE IF ~HasCol(dfs.ca, "nota") THEN Raise(KeyError("nota"))
  ELSE IF ~HasCol(dfs.ca, key) \/ ~HasCol(dfs.ma, key) THEN Raise(KeyError(key))
  ELSE
    LET la == limpiar_alumnos(dfs.al)
        lc == limpiar_calificaciones(dfs.ca)
        valid_al == FilterNotna(la.df_al, key)
        valid_ca == FilterNotna(lc.df_ca, key)
        valid_ma == FilterNotna(dfs.ma, key)
        df_temp == merge(valid_ca, valid_al)
        joined == merge(df_temp, valid_ma)
    IN IF ~HasCol(joined, "anio") THEN Raise(KeyError("anio"))
       ELSE
         LET df_final == Project(joined, columnas_finales(joined))
             st == estadisticas(joined, df_final)
         IN Return(df_final,
                   [valid_rows |-> Len(df_final.rows),
                    discarded_rows |->
                      discarded_prefect(la.df_al, valid_al, lc.df_ca, valid_ca,
                                        dfs.ma, valid_ma),
                    alumnos_con_matricula |-> st.alumnos_con_matricula,
                    promedio_notas_general |-> st.promedio_notas_general,
                    total_alumnos_unicos |-> st.total_alumnos_unicos,
                    total_materias_diferentes |-> st.total_materias_diferentes,
                    correos_generados |-> la.correos_generados])

\* transform of etl_simple.py, run on day d of the month
transform_simple(df_al, df_ca, df_ma, d) ==
  IF ~HasCol(df_al, key) THEN Raise(KeyError(key))
  ELSE IF ~HasCol(df_al, "correo") THEN Raise(KeyError("correo"))
  ELSE IF ~HasCol(df_ca, "nota") THEN Raise(KeyError("nota"))
  ELSE IF d \in DiasConError THEN Raise(ErrorValidacion)
  ELSE IF ~HasCol(df_ca, key) \/ ~HasCol(df_ma, key) THEN Raise(KeyError(key))
  ELSE
    LET la == limpiar_alumnos(df_al)
        lc == limpiar_calificaciones(df_ca)
        df_temp == merge(lc.df_ca, la.df_al)
        joined == merge(df_temp, df_ma)
    IN IF ~HasCol(joined, "anio") THEN Raise(KeyError("anio"))
       ELSE
         LET df_final == Project(joined, columnas_finales(joined))
             st == estadisticas(joined, df_final)
         IN Return(df_final,
                   [correos_generados |-> la.correos_generados,
                    alumnos_con_matricula |-> st.alumnos_con_matricula,
                    promedio_notas_general |-> st.promedio_notas_general,
                    total_alumnos_unicos |-> st.total_alumnos_unicos,
                    total_materias_diferentes |-> st.total_materias_diferentes,
                    registros_validos |-> Len(df_final.rows),
                    registros_descartados |-> discarded_simple])

\* ------------------------------------------------------------------- load

\* if_exists="append": the new rows after the ones hechos had.
to_sql_append(old, df_final) == [cols |-> df_final.cols, rows |-> old.rows \o df_final.rows]

\* What df_final.to_sql("hechos", conn, if_exists="replace") leaves in hechos.
to_sql_replace(old, df_final) == df_final

\* ---------------------------------------------------------------- log_run

Get(d, k) == IF k \in DOMAIN d THEN d[k] ELSE 0
GetFloat(d, k) == IF k \in DOMAIN d THEN d[k] ELSE Zero

\* A message: its fixed prefix, the text that follows, and its length.
Mensaje(prefix, text, len) == [prefix |-> prefix, text |-> text, len |-> len]
MensajeVacio == Mensaje("", "", 0)
\* The message stored whole.
Truncar_sin_corte(m) == m

\* mensaje[:500]
Truncar(m) == [m EXCEPT !.len = Min(m.len, MaxMensaje)]

\* The row that INSERT INTO etl_monitor writes (run_ts and duracion_s left out).
fila(leidos, validos, descartados, con_matricula, unicos, materias, correos, prom, estado, mensaje) ==
  [registros_leidos |-> leidos,
   registros_validos |-> validos,
   registros_descartados |-> descartados,
   alumnos_con_matricula |-> con_matricula,
   total_alumnos_unicos |-> unicos,
   total_materias_diferentes |-> materias,
   correos_generados |-> correos,
   promedio_notas_general |-> prom,
   estado |-> estado,
   mensaje |-> Truncar(mensaje)]

\* log_run of etl_lab2_prefect.py: the row from the metrics of the stages
log_run_prefect(extract_m, transform_m, estado, mensaje) ==
  fila(Get(extract_m, "alumnos_rows") + Get(extract_m, "calificaciones_rows")
         + Get(extract_m, "matriculas_rows"),
       Get(transform_m, "valid_rows"),
       Get(transform_m, "discarded_rows"),
       Get(transform_m, "alumnos_con_matricula"),
       Get(transform_m, "total_alumnos_unicos"),
       Get(transform_m, "total_materias_diferentes"),
       Get(transform_m, "correos_generados"),
       GetFloat(transform_m, "promedio_notas_general"),
       estado, mensaje)

\* The success row written from empty metrics, as the FAIL row is.
fila_ok_prefect_vacia(extract_m, transform_m) ==
  log_run_prefect(<<>>, <<>>, "OK", MensajeVacio)

\* The call of log_run at the end of a successful etl_flow
fila_ok_prefect(extract_m, transform_m) ==
  log_run_prefect(extract_m, transform_m, "OK", MensajeVacio)

\* log_run.submit({}, {}, {}, estado="FAIL", mensaje=str(e))
fila_fail_prefect(e) ==
  log_run_prefect(<<>>, <<>>, "FAIL", Mensaje("", e.msg, e.len))

\* The call of log_run at the end of a successful etl_simple.main
fila_ok_simple(extract_m, transform_m) ==
  fila(extract_m.total_registros,
       transform_m.registros_validos,
       transform_m.registros_descartados,
       transform_m.alumnos_con_matricula,
       transform_m.total_alumnos_unicos,
       transform_m.total_materias_diferentes,
       transform_m.correos_generados,
       transform_m.promedio_notas_general,
       "OK", Mensaje("", "ETL ejecutado exitosamente", 26))

\* The call of log_run in the except block of etl_simple.main
fila_fail_simple(e) ==
  fila(0, 0, 0, 0, 0, 0, 0, Zero, "FAIL", Mensaje("Error: ", e.msg, 7 + e.len))

\* The audit table holding the new row alone.
insert_into_vaciando(monitor, row) == <<row>>

\* CREATE TABLE IF NOT EXISTS etl_monitor and INSERT INTO etl_monitor: the
\* table with one more row at its end.
insert_into(monitor, row) == Append(monitor, row)

\* ------------------------------------------------------------ entry points

Running == [kind |-> "running", value |-> "", exc |-> NoExc]
Returned(v) == [kind |-> "return", value |-> v, exc |-> NoExc]
Raises(e) == [kind |-> "raise", value |-> "", exc |-> e]

\* etl_flow with log_run called directly in its except block: the error of
\* the audit write is the one the finally clause raises.
fin_fail_prefect_directo(e, audit_ok, audit_exc) ==
  IF audit_ok THEN Raises(e) ELSE Raises(audit_exc)

\* How etl_flow ends after its except block: log_run.submit leaves the error
\* of the audit write in the task's future, and the bare raise in the finally
\* clause raises the error being handled.
fin_fail_prefect(e, audit_ok, audit_exc) == Raises(e)

\* main without the return of its except block.
fin_fail_simple_sin_return(e, audit_ok, audit_exc) == Returned("None")

\* How etl_simple.main ends after its except block: log_run catches the error
\* of the audit write itself, and main returns False.
fin_fail_simple(e, audit_ok, audit_exc) == Returned("False")

\* variant: which pipeline runs, "prefect" (etl_flow) or "simple" (main)
\* pc: where the entry point is
\* ext, trn: what extract and transform returned
\* cln: the locals of transform after its cleaning steps
\* hechos, etl_monitor: the tables of etl.db
\* exc: the error the try block raised; failed_stage: the stage that raised it
\* audit_exc: the error of the audit write, which no caller sees
\* outcome: how the entry point ended
\* previa: the run before this one (how many there were, what it read and
\*   computed, how it ended) and the tables of etl.db as this run found them
VARIABLES variant, pc, ext, trn, cln, hechos, etl_monitor, exc, failed_stage,
          audit_exc, outcome, previa

vars == <<variant, pc, ext, trn, cln, hechos, etl_monitor, exc, failed_stage,
          audit_exc, outcome, previa>>

NoTable == [cols |-> <<>>, rows |-> <<>>]
NoExt == [al |-> NoTable, ca |-> NoTable, ma |-> NoTable, metrics |-> <<>>]
NoTrn == Raise(NoExc)
NoCln ==
  [df_al |-> NoTable, df_ca |-> NoTable, duplicados_eliminados |-> 0,
   correos_generados |-> 0, calificaciones_fuera_rango |-> 0]
\* The first run on a new etl.db: no run before it, no table yet.
NoPrevia ==
  [n |-> 0, ext |-> NoExt, trn |-> NoTrn, failed_stage |-> "", outcome |-> Running,
   hechos |-> NoTable, etl_monitor |-> <<>>]

\* The locals of transform once its cleaning steps have run.
limpieza(df_al, df_ca) ==
  LET la == limpiar_alumnos(df_al)
      lc == limpiar_calificaciones(df_ca)
  IN [df_al |-> la.df_al, df_ca |-> lc.df_ca,
      duplicados_eliminados |-> la.duplicados_eliminados,
      correos_generados |-> la.correos_generados,
      calificaciones_fuera_rango |-> lc.calificaciones_fuera_rango]

\* The files a run may find: at most MaxRows rows over the three of them.
Files ==
  UNION {UNION {UNION {[al : [1..a -> AlRows], ca : [1..c -> CaRows], ma : [1..m -> MaRows]]
                       : m \in 0..(MaxRows - a - c)}
                : c \in 0..(MaxRows - a)}
         : a \in 0..MaxRows}

Init ==
  /\ variant \in {"prefect", "simple"}
  /\ pc = "start"
  /\ ext = NoExt
  /\ trn = NoTrn
  /\ cln = NoCln
  /\ hechos = NoTable
  /\ etl_monitor = <<>>
  /\ exc = NoExc
  /\ failed_stage = ""
  /\ audit_exc = NoExc
  /\ outcome = Running
  /\ previa = NoPrevia

\* ext = extract() on the files it finds, or the error a read raises.
ExtractFrom(F) ==
  /\ pc = "start"
  /\ \/ /\ \E f \in F : ext' = extract_out(f)
        /\ pc' = "extracted"
        /\ UNCHANGED <<exc, failed_stage>>
     \/ /\ \E e \in ExtractErrors : exc' = e
        /\ failed_stage' = "extract"
        /\ pc' = "failed"
        /\ ext' = ext
  /\ UNCHANGED <<variant, previa, trn, cln, hechos, etl_monitor, audit_exc, outcome>>

Extract == ExtractFrom(Files)

\* trn = transform(ext), or the error it raises.
Transform ==
  /\ pc = "extracted"
  /\ \E d \in RunDays :
       LET r == IF variant = "prefect"
                THEN transform_prefect(ext)
                ELSE transform_simple(ext.al, ext.ca, ext.ma, d)
       IN /\ cln' = IF HasCol(ext.al, key) /\ HasCol(ext.al, "correo") /\ HasCol(ext.ca, "nota")
                   THEN limpieza(ext.al, ext.ca)
                   ELSE cln
          /\ IF Raised(r)
             THEN /\ exc' = r.exc
                  /\ failed_stage' = "transform"
                  /\ pc' = "failed"
                  /\ trn' = trn
             ELSE /\ trn' = r
                  /\ pc' = "transformed"
                  /\ UNCHANGED <<exc, failed_stage>>
  /\ UNCHANGED <<variant, previa, ext, hechos, etl_monitor, audit_exc, outcome>>

\* lod = load(trn), or the error sqlite3.connect raises.
Load ==
  /\ pc = "transformed"
  /\ \/ /\ hechos' = to_sql_replace(hechos, trn.df_final)
        /\ pc' = "loaded"
        /\ UNCHANGED <<exc, failed_stage>>
     \/ /\ exc' = SqliteError
        /\ failed_stage' = "load"
        /\ pc' = "failed"
        /\ hechos' = hechos
  /\ UNCHANGED <<variant, previa, ext, trn, cln, etl_monitor, audit_exc, outcome>>

\* The call of log_run that ends the try block, and the return of the entry
\* point.  In etl_flow an error of the write is one more error of the try
\* block; in etl_simple log_run catches it and main returns True.
LogRunOK ==
  /\ pc = "loaded"
  /\ \E audit_ok \in BOOLEAN :
       IF variant = "prefect"
       THEN IF audit_ok
            THEN /\ etl_monitor' = insert_into(etl_monitor, fila_ok_prefect(ext.metrics, trn.metrics))
                 /\ pc' = "done"
                 /\ outcome' = Returned("None")
                 /\ UNCHANGED <<exc, failed_stage, audit_exc>>
            ELSE /\ exc' = AuditError
                 /\ failed_stage' = "log_run"
                 /\ pc' = "failed"
                 /\ UNCHANGED <<etl_monitor, audit_exc, outcome>>
       ELSE /\ etl_monitor' = IF audit_ok
                              THEN insert_into(etl_monitor,
                                                fila_ok_simple(ext.metrics, trn.metrics))
                              ELSE etl_monitor
            /\ audit_exc' = IF audit_ok THEN audit_exc ELSE AuditError
            /\ pc' = "done"
            /\ outcome' = Returned("True")
            /\ UNCHANGED <<exc, failed_stage>>
  /\ UNCHANGED <<variant, previa, ext, trn, cln, hechos>>

\* The except block of etl_flow and of main: the FAIL row, whose write may
\* fail, and the end of the entry point.
HandleFailure ==
  /\ pc = "failed"
  /\ \E audit_ok \in BOOLEAN :
       /\ etl_monitor' =
            IF audit_ok
            THEN insert_into(etl_monitor,
                             IF variant = "prefect" THEN fila_fail_prefect(exc)
                             ELSE fila_fail_simple(exc))
            ELSE etl_monitor
       /\ audit_exc' = IF audit_ok THEN audit_exc ELSE AuditError
       /\ outcome' = IF variant = "prefect"
                     THEN fin_fail_prefect(exc, audit_ok, AuditError)
                     ELSE fin_fail_simple(exc, audit_ok, AuditError)
  /\ pc' = "done"
  /\ UNCHANGED <<variant, previa, ext, trn, cln, hechos, exc, failed_stage>>

\* The cleaning step 3 of transform on its own, on grade tables with scores
\* below, at, inside and above the ends of the range.
NotaVals ==
  {Null, V(-56), V(-4), V(0), V(4), V(296), V(496), V(500), V(504), V(506), V(780)}
NotaRows ==
  [id_alumno : {V(1), V(2)}, asignatura : {V("Mat")}, nota : NotaVals,
   periodo : {V("P1")}]

InitNota ==
  /\ variant \in {"prefect", "simple"}
  /\ pc = "nota"
  /\ \E n \in 0..MaxNotas : \E rows \in [1..n -> NotaRows] :
       ext = [NoExt EXCEPT !.ca = ReadRecords(CaCols, rows)]
  /\ trn = NoTrn
  /\ cln = NoCln
  /\ hechos = NoTable
  /\ etl_monitor = <<>>
  /\ exc = NoExc
  /\ failed_stage = ""
  /\ audit_exc = NoExc
  /\ outcome = Running
  /\ previa = NoPrevia

\* df_ca['nota'] = df_ca['nota'].apply(normalizar_nota)
Normalizar ==
  /\ pc = "nota"
  /\ LET lc == limpiar_calificaciones(ext.ca)
     IN cln' = [cln EXCEPT !.df_ca = lc.df_ca,
                           !.calificaciones_fuera_rango = lc.calificaciones_fuera_rango]
  /\ pc' = "nota_hecha"
  /\ UNCHANGED <<variant, previa, ext, trn, hechos, etl_monitor, exc, failed_stage,
                 audit_exc, outcome>>

NextNota == Normalizar

SpecNota == InitNota /\ [][NextNota]_vars

Next == Extract \/ Transform \/ Load \/ LogRunOK \/ HandleFailure

Spec == Init /\ [][Next]_vars

\* ------------------------------------------------------- runs in sequence

\* The files of runs that follow one another: a roster of one student or of
\* none, one or two grades, an enrollment or none.
FilesRuns ==
  LET al1 == [id_alumno |-> V(1), nombre |-> V(Jose), apellido |-> V(Perez),
              grado |-> V("5"), correo |-> Null, fecha_nacimiento |-> V("2010-01-01")]
      ca1 == [id_alumno |-> V(1), asignatura |-> V("Mat"), nota |-> V(300),
              periodo |-> V("P1")]
      ca2 == [id_alumno |-> V(2), asignatura |-> V("Mat"), nota |-> V(780),
              periodo |-> V("P1")]
      ma1 == [id_alumno |-> V(1), anio |-> V("2024"), estado |-> V("activo"),
              jornada |-> V("manana")]
  IN [al : {<<>>, <<al1>>}, ca : {<<ca1>>, <<ca1, ca2>>}, ma : {<<>>, <<ma1>>}]

ExtractRuns == ExtractFrom(FilesRuns)

\* The entry point is called again, on the etl.db the run before it left.
NuevaCorrida ==
  /\ pc = "done"
  /\ previa.n + 1 < MaxRuns
  /\ previa' = [n |-> previa.n + 1, ext |-> ext, trn |-> trn,
                failed_stage |-> failed_stage, outcome |-> outcome,
                hechos |-> hechos, etl_monitor |-> etl_monitor]
  /\ pc' = "start"
  /\ ext' = NoExt
  /\ trn' = NoTrn
  /\ cln' = NoCln
  /\ exc' = NoExc
  /\ failed_stage' = ""
  /\ audit_exc' = NoExc
  /\ outcome' = Running
  /\ UNCHANGED <<variant, hechos, etl_monitor>>

NextRuns == ExtractRuns \/ Transform \/ Load \/ LogRunOK \/ HandleFailure \/ NuevaCorrida

SpecRuns == Init /\ [][NextRuns]_vars

\* ------------------------------------------------- sources of other shapes

\* A table read from a file that names column old as new, and one read from
\* a file that has none of the columns quitar.
Rename(t, old, new) ==
  LET cols == [i \in 1..Len(t.cols) |-> IF t.cols[i] = old THEN new ELSE t.cols[i]]
  IN [cols |-> cols,
      rows |-> [i \in 1..Len(t.rows) |->
                  [c \in Range(cols) |-> IF c = new THEN t.rows[i][old] ELSE t.rows[i][c]]]]
SinColumnas(t, quitar) == Project(t, SelectSeq(t.cols, LAMBDA c : c \notin quitar))

\* Names under which a source may carry the key: the canonical one, a usual
\* alias of it, and a name that is no alias.
KeyNames == {key, "alumno_id", "codigo"}

\* transform on its own, on sources that name the key otherwise or lack a
\* column: one student, one or two grades, one enrollment.
TablasColumnas ==
  LET al == ReadCsv(<<[id_alumno |-> V(1), nombre |-> V(Jose), apellido |-> V(Perez),
                       grado |-> V("5"), correo |-> Null,
                       fecha_nacimiento |-> V("2010-01-01")]>>)
      ca1 == [id_alumno |-> V(1), asignatura |-> V("Mat"), nota |-> V(300),
              periodo |-> V("P1")]
      ca2 == [id_alumno |-> V(1), asignatura |-> V("Len"), nota |-> V(780),
              periodo |-> V("P1")]
      ma == ReadRecords(MaCols, <<[id_alumno |-> V(1), anio |-> V("2024"),
                                   estado |-> V("activo"), jornada |-> V("manana")]>>)
  IN [al : {al, Rename(al, key, "id")},
      ca : {SinColumnas(Rename(ReadRecords(CaCols, rows), key, k), q)
              : rows \in {<<ca1>>, <<ca1, ca2>>}, k \in KeyNames, q \in {{}, {"nota"}}},
      ma : {SinColumnas(Rename(ma, key, k), q)
              : k \in KeyNames, q \in SUBSET {"anio", "estado"}}]

InitColumnas ==
  /\ variant \in {"prefect", "simple"}
  /\ pc = "extracted"
  /\ \E t \in TablasColumnas :
       ext = [al |-> t.al, ca |-> t.ca, ma |-> t.ma,
              metrics |-> extract_metrics(t.al, t.ca, t.ma)]
  /\ trn = NoTrn
  /\ cln = NoCln
  /\ hechos = NoTable
  /\ etl_monitor = <<>>
  /\ exc = NoExc
  /\ failed_stage = ""
  /\ audit_exc = NoExc
  /\ outcome = Running
  /\ previa = NoPrevia

NextColumnas == Transform

SpecColumnas == InitColumnas /\ [][NextColumnas]_vars

\* ------------------------------------------------- the roster cleaning

\* Cleaning steps 1 and 2 of transform on their own, on rosters whose rows
\* repeat keys and whose names carry capitals, accents and spaces.  The
\* empty address is one that transform can be handed though pd.read_csv
\* reads an empty field as NaN.
AnaMaria == <<" ", "A", "n", "a", " ", "M", "a", "r", "i_acute", "a", " ">>
Diaz == <<"D", "I_ACUTE", "a", "z">>
Nombres ==
  {<<V(Jose), V(Perez)>>, <<V(AnaMaria), V(Perez)>>, <<V(Jose), V(Diaz)>>, <<Null, V(Perez)>>}
CorreoVals == {Null, V(<<>>), V(CorreoDado)}
AlumnoRows ==
  {[id_alumno |-> id, nombre |-> n[1], apellido |-> n[2], grado |-> V("5"),
    correo |-> c, fecha_nacimiento |-> V("2010-01-01")]
     : id \in {Null, V(1)}, n \in Nombres, c \in CorreoVals}

InitAlumnos ==
  /\ variant \in {"prefect", "simple"}
  /\ pc = "alumnos"
  /\ \E n \in 0..MaxAlumnos : \E rows \in [1..n -> AlumnoRows] :
       ext = [NoExt EXCEPT !.al = ReadCsv(rows)]
  /\ trn = NoTrn
  /\ cln = NoCln
  /\ hechos = NoTable
  /\ etl_monitor = <<>>
  /\ exc = NoExc
  /\ failed_stage = ""
  /\ audit_exc = NoExc
  /\ outcome = Running
  /\ previa = NoPrevia

\* df_al.drop_duplicates(...), df_al.apply(generar_correo, axis=1) and the
\* two counts around them
LimpiarAlumnos ==
  /\ pc = "alumnos"
  /\ LET la == limpiar_alumnos(ext.al)
     IN cln' = [cln EXCEPT !.df_al = la.df_al,
                           !.duplicados_eliminados = la.duplicados_eliminados,
                           !.correos_generados = la.correos_generados]
  /\ pc' = "alumnos_hechos"
  /\ UNCHANGED <<variant, previa, ext, trn, hechos, etl_monitor, exc, failed_stage,
                 audit_exc, outcome>>

NextAlumnos == LimpiarAlumnos

SpecAlumnos == InitAlumnos /\ [][NextAlumnos]_vars

\* ------------------------------------------------------------- properties

\* transform has returned in this run.
Completed == trn # NoTrn
ETL == {"extract", "transform", "load"}

ValidRows == IF variant = "prefect" THEN trn.metrics.valid_rows
             ELSE trn.metrics.registros_validos
DiscardedRows == IF variant = "prefect" THEN trn.metrics.discarded_rows
                 ELSE trn.metrics.registros_descartados

NotnaKeys(rows) == Len(rows) - isna_sum(rows, "id_alumno")
\* The grade rows the variant keeps for the join: etl_lab2_prefect filters
\* the rows with a null key out, etl_simple has no filter.
RetainedGrades == IF variant = "prefect" THEN NotnaKeys(ext.ca.rows)
                  ELSE Len(ext.ca.rows)

\* C1: after every transform that completes, valid_rows is the number of
\* rows of the final table, and that is the number of grade rows retained
\* after key filtering (the joins neither drop nor duplicate a grade row).
C1_OneRowPerRetainedGrade ==
  Completed =>
    /\ ValidRows = Len(trn.df_final.rows)
    /\ Len(trn.df_final.rows) = RetainedGrades

\* Per source, the rows as read minus the rows left after deduplication (the
\* roster) and the null-key filter.
ReadMinusKept ==
  (Len(ext.al.rows) - NotnaKeys(drop_duplicates(ext.al.rows)))
  + (Len(ext.ca.rows) - NotnaKeys(ext.ca.rows))
  + (Len(ext.ma.rows) - NotnaKeys(ext.ma.rows))

\* C2: the discarded-rows metric of a run is the sum over the three sources
\* of the rows as read minus the rows after the null-key filter.
C2_DiscardedIsReadMinusKept == Completed => DiscardedRows = ReadMinusKept

\* C3: with an empty enrollment table (and grades to join), transform does
\* not raise for the missing key column, and what it returns has one row per
\* retained grade with null anio, estado and jornada, and no student with
\* enrollment.
C3_EmptyEnrollmentJoins ==
  (pc \notin {"start", "extracted"} /\ failed_stage # "extract"
   /\ ext.ma.rows = <<>> /\ ext.ca.rows # <<>>)
  => /\ ~(failed_stage = "transform" /\ exc = KeyError(key))
     /\ Completed =>
          /\ Len(trn.df_final.rows) = RetainedGrades
          /\ \A i \in 1..Len(trn.df_final.rows) :
               /\ isna(trn.df_final.rows[i].anio)
               /\ isna(trn.df_final.rows[i].estado)
               /\ isna(trn.df_final.rows[i].jornada)
          /\ trn.metrics.alumnos_con_matricula = 0

\* The entry point has ended after extract, transform or load raised.
FailedRun == pc = "done" /\ failed_stage \in ETL

ZeroMetrics(r) ==
  /\ r.registros_leidos = 0
  /\ r.registros_validos = 0
  /\ r.registros_descartados = 0
  /\ r.alumnos_con_matricula = 0
  /\ r.total_alumnos_unicos = 0
  /\ r.total_materias_diferentes = 0
  /\ r.correos_generados = 0
  /\ r.promedio_notas_general = Zero

FailRow(r) ==
  /\ r.estado = "FAIL"
  /\ ZeroMetrics(r)
  /\ r.mensaje.len > 0
  /\ r.mensaje.len <= 500

\* C4 as claimed: a run in which extract, transform or load raised has
\* appended exactly one audit row, with estado FAIL, every metric zero and a
\* message of 1 to 500 characters.
C4_ExactlyOneFailRow ==
  FailedRun => Len(etl_monitor) = 1 /\ FailRow(etl_monitor[1])

\* C4 as amended: such a run has appended exactly that one row unless the
\* audit write itself failed, and then it has appended none.
C4_OneFailRowUnlessWriteFails ==
  FailedRun =>
    IF audit_exc = NoExc
    THEN Len(etl_monitor) = 1 /\ FailRow(etl_monitor[1])
    ELSE etl_monitor = <<>>

\* load raised after rows had been read and transformed; the FAIL row of the
\* run holds zeros and the message of the error.
C4_Witness ==
  /\ pc = "done" /\ failed_stage = "load" /\ audit_exc = NoExc
  /\ ext.metrics.total_registros > 0 /\ Len(trn.df_final.rows) > 0
  /\ Len(etl_monitor) = 1 /\ etl_monitor[1].estado = "FAIL"

\* The FAIL audit write was attempted: the row is there, or the write failed.
AuditAttempted ==
  \/ Len(etl_monitor) = 1 /\ etl_monitor[1].estado = "FAIL"
  \/ audit_exc # NoExc

C6_AuditFailureDoesNotMask ==
  (pc = "done" /\ failed_stage # "" /\ audit_exc # NoExc) =>
    /\ etl_monitor = <<>>
    /\ IF variant = "prefect" THEN outcome = Raises(exc)
       ELSE outcome = Returned("False")

\* transform raised in etl_flow, the audit write failed too, and the caller
\* got the error of transform.
C6_Witness ==
  /\ pc = "done" /\ variant = "prefect" /\ failed_stage = "transform"
  /\ audit_exc = AuditError /\ outcome.kind = "raise" /\ outcome.exc # AuditError

\* The audit row holds the metrics this run computed.
RunMetrics(r) ==
  /\ r.registros_leidos = ext.metrics.total_registros
  /\ r.registros_validos = ValidRows
  /\ r.registros_validos = Len(hechos.rows)
  /\ r.registros_descartados = DiscardedRows
  /\ r.alumnos_con_matricula = trn.metrics.alumnos_con_matricula
  /\ r.total_alumnos_unicos = trn.metrics.total_alumnos_unicos
  /\ r.total_materias_diferentes = trn.metrics.total_materias_diferentes
  /\ r.correos_generados = trn.metrics.correos_generados
  /\ r.promedio_notas_general = trn.metrics.promedio_notas_general

C8_LeidosIsRowsRead ==
  \A i \in 1..Len(etl_monitor) :
    etl_monitor[i].estado = "OK" =>
      /\ etl_monitor[i].registros_leidos
           = Len(ext.al.rows) + Len(ext.ca.rows) + Len(ext.ma.rows)
      /\ ext.metrics.alumnos_rows = Len(ext.al.rows)
      /\ ext.metrics.calificaciones_rows = Len(ext.ca.rows)
      /\ ext.metrics.matriculas_rows = Len(ext.ma.rows)

\* A successful run whose roster lost a duplicate: the row counts it too.
C8_Witness ==
  /\ Len(etl_monitor) = 1 /\ etl_monitor[1].estado = "OK"
  /\ cln.duplicados_eliminados = 1
  /\ etl_monitor[1].registros_leidos = 4

\* C9: promedio_notas_general is the mean of the non-null nota values of the
\* final table, and 0 when there is none.
C9_MeanOrZero ==
  Completed =>
    LET rows == trn.df_final.rows
        n == CountNota(rows)
    IN trn.metrics.promedio_notas_general
         = IF n = 0 THEN Zero ELSE Num(SumNota(rows), n)

\* C10: normalizar_nota leaves a null score null and uncounted, returns a
\* value in [0, 5] for any other, counts a score exactly when it is below 0
\* or above 5 before rounding, and the grade table keeps its rows in order.
C10_NotaClamped ==
  pc = "nota_hecha" =>
    LET in == ext.ca.rows
        out == cln.df_ca.rows
    IN /\ Len(out) = Len(in)
       /\ \A i \in 1..Len(in) :
            /\ out[i] = [in[i] EXCEPT !.nota = out[i].nota]
            /\ isna(in[i].nota) <=> isna(out[i].nota)
            /\ notna(out[i].nota) => Val(out[i].nota) >= 0 /\ Val(out[i].nota) <= 500
       /\ cln.calificaciones_fuera_rango
            = Cardinality({i \in 1..Len(in) :
                             /\ in[i].nota # Null
                             /\ (in[i].nota[1] < 0 \/ in[i].nota[1] > 500)})

\* 5.04 rounds into the range and is counted; the null beside it is not.
C10_Witness ==
  /\ pc = "nota_hecha"
  /\ Len(ext.ca.rows) = 2
  /\ ext.ca.rows[1].nota = V(504) /\ cln.df_ca.rows[1].nota = V(500)
  /\ ext.ca.rows[2].nota = Null /\ cln.df_ca.rows[2].nota = Null
  /\ cln.calificaciones_fuera_rango = 1

\* The roster after deduplication, before and after the address step.
DedupIn == drop_duplicates(ext.al.rows)
DedupOut == cln.df_al.rows

\* A name in lower case, without spaces, its accented vowels replaced.
NombreNormal(s) ==
  LET t == SelectSeq(s, LAMBDA ch : ch # " ")
  IN [i \in 1..Len(t) |-> sin_acento(lower(t[i]))]
CorreoEsperado(row) ==
  NombreNormal(str(row.nombre)) \o <<".">> \o NombreNormal(str(row.apellido))
    \o <<"@colegio.edu">>

SameSources ==
  /\ previa.n > 0
  /\ failed_stage # "extract" /\ previa.failed_stage # "extract"
  /\ ext.al = previa.ext.al /\ ext.ca = previa.ext.ca /\ ext.ma = previa.ext.ma

Validos(t) == IF variant = "prefect" THEN t.metrics.valid_rows
              ELSE t.metrics.registros_validos

\* C12: of two runs on the same source tables, transform succeeds in both or
\* in neither, and when it succeeds valid_rows, total_alumnos_unicos,
\* total_materias_diferentes and promedio_notas_general are the same,
\* whatever the day of each run.
C12_SameSourcesSameOutcome ==
  (pc = "done" /\ SameSources) =>
    /\ (trn = NoTrn) <=> (previa.trn = NoTrn)
    /\ (trn # NoTrn /\ previa.trn # NoTrn) =>
         /\ Validos(trn) = Validos(previa.trn)
         /\ trn.metrics.total_alumnos_unicos = previa.trn.metrics.total_alumnos_unicos
         /\ trn.metrics.total_materias_diferentes
              = previa.trn.metrics.total_materias_diferentes
         /\ trn.metrics.promedio_notas_general = previa.trn.metrics.promedio_notas_general

\* The rows of the three sources, as read, whose id_alumno is null.
NullKeyRows ==
  isna_sum(ext.al.rows, key) + isna_sum(ext.ca.rows, key) + isna_sum(ext.ma.rows, key)

\* No output row has a null key, so none carries fields of a null-key roster
\* or enrollment row.
NoNullKeyJoined ==
  \A i \in 1..Len(trn.df_final.rows) : notna(trn.df_final.rows[i].id_alumno)

\* C13: in both variants a row with a null id_alumno takes no part in the
\* joins, every such row is counted as discarded, and a KeyError of
\* transform comes from a table without columns, never from such a row.
C13_NullKeysExcludedAndCounted ==
  /\ Completed => NoNullKeyJoined /\ DiscardedRows >= NullKeyRows
  /\ (failed_stage = "transform" /\ exc.type = "KeyError")
       => (ext.ca.rows = <<>> \/ ext.ma.rows = <<>>)

\* The places of the roster rows that are the first with their key (a null
\* key counts as one more key), and the j-th of them.
FirstOfKey ==
  {i \in 1..Len(ext.al.rows) :
     \A j \in 1..(i - 1) : ext.al.rows[j].id_alumno # ext.al.rows[i].id_alumno}
NthFirst(j) == CHOOSE i \in FirstOfKey : Cardinality({x \in FirstOfKey : x < i}) = j - 1

\* C14: once the cleaning has run, the roster holds exactly the first row of
\* every key in the order of the input, duplicados_eliminados is the number
\* of rows that went, and the grade table has all its rows.
C14_FirstRowPerKeyKept ==
  cln # NoCln =>
    /\ Len(cln.df_al.rows) = Cardinality(FirstOfKey)
    /\ \A j \in 1..Len(cln.df_al.rows) :
         cln.df_al.rows[j]
           = [ext.al.rows[NthFirst(j)] EXCEPT
                !.correo = generar_correo(ext.al.rows[NthFirst(j)])]
    /\ cln.duplicados_eliminados = Len(ext.al.rows) - Len(cln.df_al.rows)
    /\ Len(cln.df_ca.rows) = Len(ext.ca.rows)
    /\ \A i \in 1..Len(ext.ca.rows) :
         cln.df_ca.rows[i].id_alumno = ext.ca.rows[i].id_alumno

\* Student 1 twice with a null-key row between: the first row of student 1
\* (the one without address) and the null-key row stay, in that order.
C14_Witness ==
  /\ cln # NoCln
  /\ Len(ext.al.rows) = 3
  /\ ext.al.rows[1].id_alumno = V(1) /\ ext.al.rows[1].correo = Null
  /\ ext.al.rows[2].id_alumno = Null
  /\ ext.al.rows[3].id_alumno = V(1) /\ ext.al.rows[3].correo = V(CorreoDado)
  /\ Len(cln.df_al.rows) = 2
  /\ cln.df_al.rows[1].id_alumno = V(1) /\ cln.df_al.rows[1].correo # V(CorreoDado)
  /\ cln.df_al.rows[2].id_alumno = Null
  /\ cln.duplicados_eliminados = 1

\* load has replaced hechos in this run.
LoadedThisRun ==
  \/ pc = "loaded"
  \/ pc \in {"failed", "done"} /\ failed_stage = "log_run"
  \/ pc = "done" /\ failed_stage = ""

\* The audit rows this run found are still there, unchanged and first.
EarlierRowsKept ==
  /\ Len(etl_monitor) >= Len(previa.etl_monitor)
  /\ SubSeq(etl_monitor, 1, Len(previa.etl_monitor)) = previa.etl_monitor

\* hechos is what the last successful load wrote.
HechosOfLastLoad == hechos = IF LoadedThisRun THEN trn.df_final ELSE previa.hechos

EndedWithFailRow ==
  /\ pc = "done"
  /\ Len(etl_monitor) = Len(previa.etl_monitor) + 1
  /\ etl_monitor[Len(etl_monitor)].estado = "FAIL"

\* transform has run only after extract returned, load only after transform
\* returned, the OK row is written only after load returned, and after a
\* failure of extract, transform or load no later one of them has run.
StagesInOrder ==
  /\ trn # NoTrn => ext # NoExt
  /\ LoadedThisRun => trn # NoTrn
  /\ (Len(etl_monitor) > Len(previa.etl_monitor)
       /\ etl_monitor[Len(etl_monitor)].estado = "OK") => LoadedThisRun
  /\ failed_stage = "extract" => ext = NoExt /\ trn = NoTrn /\ ~LoadedThisRun
  /\ failed_stage = "transform" => trn = NoTrn /\ ~LoadedThisRun
  /\ failed_stage = "load" => ~LoadedThisRun

\* C16: the stages of a run execute in the order extract, transform, load,
\* record, a failed stage is followed by no later data stage, and a run that
\* ends with a FAIL audit row has left hechos as it found it.
C16_OrderedAndFailLeavesHechos ==
  /\ StagesInOrder
  /\ failed_stage \in ETL => hechos = previa.hechos
  /\ EndedWithFailRow => hechos = previa.hechos

TransformEnded == pc \in {"transformed", "failed"}
\* The table carries the key under its canonical name or under the alias.
KeyUsable(t) == HasCol(t, key) \/ HasCol(t, "alumno_id")

\* C18: whatever the sources call the key, transform does not fail for it:
\* the roster's first column serves when the preferred name is missing, an
\* alias in the grade or enrollment table is renamed, and a table without
\* any alias has all its rows left out and counted as discarded.
C18_KeyResolvedByAlias ==
  (TransformEnded /\ HasCol(ext.ca, "nota") /\ HasCol(ext.ma, "anio")) =>
    /\ pc = "failed" => exc = ErrorValidacion
    /\ Completed =>
         /\ Len(trn.df_final.rows) = IF KeyUsable(ext.ca) THEN Len(ext.ca.rows) ELSE 0
         /\ ~KeyUsable(ext.ca) => DiscardedRows >= Len(ext.ca.rows)
         /\ ~KeyUsable(ext.ma) =>
              /\ trn.metrics.alumnos_con_matricula = 0
              /\ DiscardedRows >= Len(ext.ma.rows)

\* The preferred columns that one of the three sources has, in their order.
PreferredPresent ==
  SelectSeq(columnas_ordenadas,
            LAMBDA c : HasCol(ext.al, c) \/ HasCol(ext.ca, c) \/ HasCol(ext.ma, c))

\* C19: when the sources carry the key, transform does not raise for a
\* preferred column that they lack, and the columns of its output are the
\* preferred columns the sources have, in the preferred order.
C19_MissingColumnsOmitted ==
  (TransformEnded /\ HasCol(ext.al, key) /\ HasCol(ext.ca, key) /\ HasCol(ext.ma, key)) =>
    /\ pc = "failed" => exc = ErrorValidacion
    /\ Completed => trn.df_final.cols = PreferredPresent

LastRow == etl_monitor[Len(etl_monitor)]

\* The row counts its students no more than once each.
MetricsOrdered(r) ==
  /\ r.alumnos_con_matricula <= r.total_alumnos_unicos
  /\ r.total_alumnos_unicos <= r.registros_validos

\* C20 as claimed: between runs, when the most recent audit row is an OK
\* row, hechos has as many rows as its registros_validos, and its
\* alumnos_con_matricula <= total_alumnos_unicos <= registros_validos.
C20_HechosMatchesLastOkRow ==
  (pc = "done" /\ etl_monitor # <<>> /\ LastRow.estado = "OK") =>
    /\ Len(hechos.rows) = LastRow.registros_validos
    /\ MetricsOrdered(LastRow)

\* C20 as amended: when the most recent run has written an OK row, hechos
\* has as many rows as that row's registros_validos; and every OK row has
\* alumnos_con_matricula <= total_alumnos_unicos <= registros_validos.
C20_HechosMatchesOkRowOfLastRun ==
  /\ (pc = "done" /\ Len(etl_monitor) = Len(previa.etl_monitor) + 1
       /\ LastRow.estado = "OK")
      => Len(hechos.rows) = LastRow.registros_validos
  /\ \A i \in 1..Len(etl_monitor) :
       etl_monitor[i].estado = "OK" => MetricsOrdered(etl_monitor[i])

\* The second of two successful runs: two grades loaded after the one of
\* the first run, for two students of whom one is enrolled.
C20_Witness ==
  /\ pc = "done" /\ previa.n = 1
  /\ Len(previa.hechos.rows) = 1
  /\ Len(etl_monitor) = 2 /\ LastRow.estado = "OK"
  /\ Len(hechos.rows) = 2 /\ LastRow.registros_validos = 2
  /\ LastRow.total_alumnos_unicos = 2 /\ LastRow.alumnos_con_matricula = 1

====
